---- MODULE Spec2Model ----
(***************************************************************************)
(* Model of backend_python/detect_api.py: the rule-based chart classifier  *)
(* detect_chart_type_accurate and the /detect-chart endpoint around it.    *)
(*                                                                         *)
(* The OpenCV / numpy calls are the model's inputs: an image is the record *)
(* of what they return for it (edge pixel count, contour areas and polygon *)
(* vertex counts, Hough circles, Hough line segments, pixel statistics).   *)
(* Everything the source computes from those values is computed here.      *)
(*                                                                         *)
(* Numbers.  Areas, radii, np.std and np.mean are integers here (np.std of  *)
(* a single-colour image is computed from its colour and rounded up).  The *)
(* ratios edge_density and filled_ratio are kept as exact fractions        *)
(* <<numerator, denominator>> and compared with the decimal literals of    *)
(* the source by cross multiplication (0.15 is 15/100).                    *)
(***************************************************************************)
EXTENDS Integers, Sequences, FiniteSets

VARIABLES
    pc,           \* "idle" | "tree" | "except" | "done"
    image_array,  \* the argument of the running (or last) call
    f,            \* the locals the decision tree reads (lines 32-98)
    e,            \* the exception caught at line 166, "none" if none
    result,       \* the label returned by detect_chart_type_accurate
    ret,          \* source line of the return statement that produced it
    envelope      \* the last response of /detect-chart

vars == <<pc, image_array, f, e, result, ret, envelope>>

----------------------------------------------------------------------------
(* Arithmetic helpers                                                      *)

Min(a, b) == IF a < b THEN a ELSE b

Abs(a) == IF a < 0 THEN -a ELSE a

\* q > n/d and q < n/d for a fraction q = <<num, den>> with den > 0, d > 0
Gt(q, n, d) == q[1] * d > n * q[2]

Lt(q, n, d) == q[1] * d < n * q[2]

\* int(m * p/100) of Python for m >= 0
IntPct(m, p) == (m * p) \div 100

----------------------------------------------------------------------------
(* Feature computation, lines 30-98                                        *)

\* line 39: cv2.contourArea(c) > 50
IsSignificant(c) == c.area > 50

\* lines 68-71: area > 200 and the approximated polygon has 4 vertices
IsRectangle(c) == c.area > 200 /\ c.approx = 4

\* line 98: 10 < cv2.contourArea(c) < 200
IsSmall(c) == 10 < c.area /\ c.area < 200

\* line 88, 91: sqrt(dx^2 + dy^2) > width * 0.15, squared: 400 (dx^2+dy^2) > 9 width^2
IsLong(line, width) ==
    LET x1 == line[1][1]  y1 == line[1][2]
        x2 == line[1][3]  y2 == line[1][4]
    IN  400 * ((x2 - x1) * (x2 - x1) + (y2 - y1) * (y2 - y1)) > 9 * width * width

\* line 89, 93: 80 < |atan2(dy, dx)| in degrees < 100, that is |dx| < |dy| tan(10 deg);
\* tan(10 deg) = 0.1763269807..., and no ratio of two pixel distances below
\* 1000 lies between it and 176327/1000000
IsVertical(line) ==
    LET x1 == line[1][1]  y1 == line[1][2]
        x2 == line[1][3]  y2 == line[1][4]
    IN  Abs(x2 - x1) * 1000000 < Abs(y2 - y1) * 176327

\* lines 32-98: the locals read by the decision tree
Features(img) ==
    LET height == img.height
        width == img.width
        significant_contours == SelectSeq(img.contours, IsSignificant)
        rectangles == SelectSeq(significant_contours, IsRectangle)
        lines == img.lines
    IN  [ height |-> height,
          width |-> width,
          num_contours |-> Len(significant_contours),
          edge_density |-> <<img.edge_pixels, height * width>>,
          color_std |-> img.color_std,
          saturation_mean |-> img.saturation_mean,
          filled_ratio |-> <<img.filled_pixels, height * width>>,
          circles |-> img.circles,
          num_rectangles |-> Len(rectangles),
          long_lines |->
              Cardinality({i \in DOMAIN lines : IsLong(lines[i], width)}),
          vertical_lines |->
              Cardinality({i \in DOMAIN lines : IsVertical(lines[i])}),
          small_contours |->
              Cardinality({i \in DOMAIN significant_contours :
                              IsSmall(significant_contours[i])}) ]

----------------------------------------------------------------------------
(* Decision tree, lines 100-164                                            *)

\* IsPie with the larger image side in place of the smaller one
IsPieMax(v) ==
    /\ v.circles # <<>>
    /\ Len(v.circles[1]) > 0
    /\ \E i \in DOMAIN v.circles[1] :
           v.circles[1][i][3] * 10
               > (IF v.width > v.height THEN v.width ELSE v.height) * 2

\* lines 103-107: some detected circle has r > min(width, height) * 0.2
\* (circles is <<>> for None, else << list of <<x, y, r>> >> as circles[0])
IsPie(v) ==
    /\ v.circles # <<>>
    /\ Len(v.circles[1]) > 0
    /\ \E i \in DOMAIN v.circles[1] :
           v.circles[1][i][3] * 10 > Min(v.width, v.height) * 2

\* line 110
IsScatter(v) ==
    v.small_contours > 30 /\ Gt(v.edge_density, 15, 100) /\ v.long_lines < 5

\* IsBoxplot with 3 < num_rectangles in place of 3 <= num_rectangles
IsBoxplotStrict(v) ==
    3 < v.num_rectangles /\ v.num_rectangles <= 10 /\ v.vertical_lines >= 3

\* line 114
IsBoxplot(v) ==
    3 <= v.num_rectangles /\ v.num_rectangles <= 10 /\ v.vertical_lines >= 3

\* lines 118-121
IsViolin(v) ==
    /\ v.num_contours > 2 /\ v.num_contours < 15
    /\ v.num_rectangles < 3
    /\ Gt(v.edge_density, 5, 100) /\ Lt(v.edge_density, 15, 100)
    /\ v.saturation_mean > 50

\* line 125
IsLine(v) ==
    v.long_lines >= 2 /\ v.num_contours > 5 /\ v.num_rectangles < 5

\* line 129
IsStackedArea(v) ==
    Gt(v.filled_ratio, 30, 100) /\ v.color_std > 30 /\ Lt(v.edge_density, 12, 100)

\* line 133
IsArea(v) ==
    Gt(v.filled_ratio, 25, 100) /\ Lt(v.edge_density, 10, 100)

\* IsBar with the threshold 4 in place of 3
IsBarFour(v) == v.num_rectangles > 4

\* line 137
IsBar(v) == v.num_rectangles > 3

\* lines 138-143
BarSubtype(v) ==
    IF v.num_contours > 15 THEN [label |-> "Grouped Bar Chart", line |-> 139]
    ELSE IF v.color_std > 40 THEN [label |-> "Stacked Bar Chart", line |-> 141]
    ELSE [label |-> "Bar Chart", line |-> 143]

\* IsHistogram with vertical_lines >= 5 in place of vertical_lines > 5
IsHistogramGe(v) == v.vertical_lines >= 5 /\ Gt(v.edge_density, 12, 100)

\* line 146
IsHistogram(v) == v.vertical_lines > 5 /\ Gt(v.edge_density, 12, 100)

\* HistogramSubtype with the first branch's label copied from the second
HistogramSubtypeCopied(v) ==
    IF v.color_std > 40 THEN [label |-> "Histogram", line |-> 148]
    ELSE [label |-> "Histogram", line |-> 150]

\* lines 147-150
HistogramSubtype(v) ==
    IF v.color_std > 40 THEN [label |-> "Histogram with Density", line |-> 148]
    ELSE [label |-> "Histogram", line |-> 150]

\* IsDensity with num_contours > 5 in place of num_contours < 5
IsDensityFlipped(v) == Lt(v.edge_density, 8, 100) /\ v.num_contours > 5

\* line 153
IsDensity(v) == Lt(v.edge_density, 8, 100) /\ v.num_contours < 5

\* Fallback without its final else: the function falls off its end
FallbackNoDefault(v) ==
    IF v.long_lines > 0 THEN [label |-> "Line Chart", line |-> 158]
    ELSE IF v.small_contours > 10 THEN [label |-> "Scatterplot", line |-> 160]
    ELSE IF v.num_rectangles > 0 THEN [label |-> "Bar Chart", line |-> 162]
    ELSE [label |-> "None", line |-> 164]

\* lines 157-164
Fallback(v) ==
    IF v.long_lines > 0 THEN [label |-> "Line Chart", line |-> 158]
    ELSE IF v.small_contours > 10 THEN [label |-> "Scatterplot", line |-> 160]
    ELSE IF v.num_rectangles > 0 THEN [label |-> "Bar Chart", line |-> 162]
    ELSE [label |-> "Line Chart", line |-> 164]

\* lines 102-164: the label returned and the line of the return statement
DecisionTree(v) ==
    IF IsPie(v) THEN [label |-> "Pie Chart", line |-> 107]
    ELSE IF IsScatter(v) THEN [label |-> "Scatterplot", line |-> 111]
    ELSE IF IsBoxplot(v) THEN [label |-> "Boxplot", line |-> 115]
    ELSE IF IsViolin(v) THEN [label |-> "Violin Plot", line |-> 122]
    ELSE IF IsLine(v) THEN [label |-> "Line Chart", line |-> 126]
    ELSE IF IsStackedArea(v) THEN [label |-> "Stacked Area Chart", line |-> 130]
    ELSE IF IsArea(v) THEN [label |-> "Area Chart", line |-> 134]
    ELSE IF IsBar(v) THEN BarSubtype(v)
    ELSE IF IsHistogram(v) THEN HistogramSubtype(v)
    ELSE IF IsDensity(v) THEN [label |-> "Density Plot", line |-> 154]
    ELSE Fallback(v)

----------------------------------------------------------------------------
(* The images the model classifies: what OpenCV and numpy report for them  *)

\* longest list of circles cv2.HoughCircles reports in the modelled images
MaxCircles == 2

Rep(x, n) == [i \in 1..n |-> x]

\* s small blobs, r rectangles, n significant contours in all, and one
\* contour below the area > 50 noise floor; the other significant contours
\* are a 4-vertex one of area exactly 200 and polygons of 6 vertices
ContourList(s, r, n) ==
    Rep([area |-> 100, approx |-> 8], s)
    \o Rep([area |-> 400, approx |-> 4], r)
    \o [i \in 1..(n - s - r) |->
           IF i = 1 THEN [area |-> 200, approx |-> 4]
                    ELSE [area |-> 400, approx |-> 6]]
    \o << [area |-> 30, approx |-> 4] >>

\* a segments longer than 0.15 * width and horizontal, b short vertical
\* segments drawn downwards and upwards in turn, and a short diagonal one
\* when a + b is odd; <<>> is HoughLinesP's None
LineList(a, b) ==
    Rep(<< <<0, 10, 100, 10>> >>, a)
    \o [i \in 1..b |-> IF i % 2 = 1 THEN << <<50, 0, 50, 40>> >>
                                    ELSE << <<60, 40, 60, 0>> >>]
    \o (IF (a + b) % 2 = 1 THEN << << <<0, 0, 30, 30>> >> >> ELSE <<>>)

\* radii HoughCircles may report: minRadius <= r <= maxRadius (lines 61-62)
Radii(w, h) ==
    {r \in {10, 11, 20, 21} :
        IntPct(Min(w, h), 15) <= r /\ r <= IntPct(Min(w, h), 45)}

\* the value of cv2.HoughCircles: None (<<>>) or an array holding one list
\* of <<x, y, r>>, centres 100 pixels apart
CircleLists(w, h) ==
    {<<>>} \cup
    UNION {{ << [i \in 1..n |-> <<100 * i, 50, rs[i]>>] >> :
               rs \in [1..n -> Radii(w, h)]} : n \in 1..MaxCircles}

Img(w, h, ep, s, r, n, cs, sat, fp, a, b, circ) ==
    [ width |-> w, height |-> h,
      edge_pixels |-> (ep * w * h) \div 100,
      contours |-> ContourList(s, r, n),
      color_std |-> cs, saturation_mean |-> sat,
      filled_pixels |-> (fp * w * h) \div 100,
      circles |-> circ,
      lines |-> LineList(a, b) ]

\* <<small blobs, rectangles, significant contours>>
ContourCounts ==
    {t \in {0, 10, 11, 30, 31} \X {0, 2, 3, 4, 10, 11} \X {0, 3, 5, 6, 15, 42} :
        t[1] + t[2] <= t[3]}

\* images without circles: every combination of values on both sides of
\* each threshold of the decision tree, as <<edge %, <<small blobs,
\* rectangles, contours>>, np.std, saturation, filled %, long, vertical>>
GridParams ==
    {5, 6, 8, 10, 12, 13, 15, 16} \X ContourCounts \X {30, 31, 40, 41}
    \X {50, 51} \X {25, 26, 30, 100} \X {0, 1, 2, 5} \X {2, 3, 5, 6}

GridImage(p) ==
    Img(300, 100, p[1], p[2][1], p[2][2], p[2][3], p[3], p[4], p[5], p[6],
        p[7], <<>>)

\* images with circles, over features that lead to each later rule
CircleImages ==
    UNION {{Img(d[1], d[2], ep, t[1], t[2], t[3], cs, 51, fp, a, b, c) :
                ep \in {5, 16},
                t \in {<<0, 0, 0>>, <<0, 0, 6>>, <<0, 4, 6>>, <<31, 3, 42>>},
                cs \in {30, 41}, fp \in {25, 100}, a \in {0, 2}, b \in {2, 6},
                c \in CircleLists(d[1], d[2]) \ {<<>>}} :
           d \in {<<300, 100>>, <<100, 300>>}}

\* line 31 on one pixel: cv2.COLOR_RGB2GRAY on 8-bit channels, in fixed
\* point: (9798 R + 19235 G + 3735 B + 2^14) >> 15
GrayOf(c) == (9798 * c[1] + 19235 * c[2] + 3735 * c[3] + 16384) \div 32768

\* lines 48-49 on one pixel: the S channel of cv2.COLOR_RGB2HSV on 8-bit
\* channels, in fixed point: (diff * sdiv_table[max] + 2^11) >> 12 with
\* sdiv_table[v] = round(255 * 2^12 / v) (no v in 1..255 gives a tie) and
\* sdiv_table[0] = 0
SaturationOf(c) ==
    LET hi == IF c[1] >= c[2] /\ c[1] >= c[3] THEN c[1]
              ELSE IF c[2] >= c[3] THEN c[2] ELSE c[3]
        lo == Min(c[1], Min(c[2], c[3]))
        sdiv == IF hi = 0 THEN 0 ELSE (2 * 255 * 4096 + hi) \div (2 * hi)
    IN  ((hi - lo) * sdiv + 2048) \div 4096

\* line 47 on an image of one colour: np.std runs over the values of all
\* three channels, so it is sqrt(3 (R^2 + G^2 + B^2) - (R + G + B)^2) / 3,
\* which is 0 only when R = G = B; rounded up to an integer, which keeps
\* every comparison with the integer thresholds of the decision tree
StdOf(c) ==
    LET x == 3 * (c[1] * c[1] + c[2] * c[2] + c[3] * c[3])
             - (c[1] + c[2] + c[3]) * (c[1] + c[2] + c[3])
    IN  CHOOSE n \in 0..255 :
            9 * n * n >= x /\ (n = 0 \/ 9 * (n - 1) * (n - 1) < x)

\* the RGB colours of the single-colour images: white, black, the two greys
\* at the threshold of line 53, three saturated colours, dark and pale
\* colours of small and of large spread, and colours whose fixed-point grey
\* value or saturation is not the rounded real one
Colours ==
    { <<255, 255, 255>>, <<0, 0, 0>>, <<200, 200, 200>>, <<201, 201, 201>>,
      <<255, 0, 0>>, <<0, 0, 255>>, <<255, 255, 0>>,
      <<100, 110, 120>>, <<100, 140, 180>>, <<250, 240, 230>>,
      <<79, 252, 254>>, <<0, 0, 250>>, <<3, 3, 90>>, <<226, 132, 4>>,
      <<198, 99, 188>> }

\* a single-colour image: no edges, contours, circles or lines; every pixel
\* is filled when its grey value is not above 200 (line 53, THRESH_BINARY_INV)
BlankImage(d, c) ==
    [ width |-> d[1], height |-> d[2], edge_pixels |-> 0, contours |-> <<>>,
      color_std |-> StdOf(c), saturation_mean |-> SaturationOf(c),
      filled_pixels |-> IF GrayOf(c) > 200 THEN 0 ELSE d[1] * d[2],
      circles |-> <<>>, lines |-> <<>> ]

BlankImages ==
    {BlankImage(d, c) : d \in {<<300, 100>>, <<100, 300>>}, c \in Colours}

\* images whose segments are near the length and angle thresholds
SegmentImages ==
    {[ width |-> 300, height |-> 100, edge_pixels |-> 3000,
       contours |-> ContourList(0, 0, 6), color_std |-> 10,
       saturation_mean |-> 0, filled_pixels |-> 0, circles |-> <<>>,
       lines |-> << <<seg>> >> ] :
        seg \in { <<0, 0, 45, 0>>, <<0, 0, 46, 0>>, <<0, 0, 27, 36>>,
                  <<0, 0, 28, 36>>, <<3, 0, 0, 17>>, <<3, 0, 0, 18>>,
                  <<0, 18, 3, 0>>, <<10, 0, 10, 90>>, <<100, 50, 40, 50>> }}

\* zero-dimension arrays: cv2.cvtColor raises on them (line 31)
EmptyImages ==
    {[ width |-> d[1], height |-> d[2], edge_pixels |-> 0, contours |-> <<>>,
       color_std |-> 0, saturation_mean |-> 0, filled_pixels |-> 0,
       circles |-> <<>>, lines |-> <<>> ] :
        d \in {<<0, 0>>, <<300, 0>>, <<0, 100>>}}

\* the images with circles, the blank ones and those of single segments
OtherImages == CircleImages \cup BlankImages \cup SegmentImages

\* the uploads of the endpoint's runs: a few images, classified repeatedly
ServiceImages ==
    { Img(300, 100, 10, 0, 0, 6, 30, 50, 25, 1, 2, <<>>),
      Img(300, 100, 16, 31, 3, 42, 41, 51, 100, 0, 6, <<>>),
      Img(300, 100, 13, 0, 4, 6, 41, 51, 25, 0, 2,
          << << <<100, 50, 20>>, <<200, 50, 21>> >> >>) }
    \cup { BlankImage(<<300, 100>>, <<255, 255, 255>>),
           BlankImage(<<300, 100>>, <<0, 0, 0>>) }
    \cup {z \in EmptyImages : z.width = 0 /\ z.height = 0}

\* what str(e) may be when reading or decoding the upload fails
DecodeErrors == {"cannot identify image file", "broken data stream"}

----------------------------------------------------------------------------
(* State                                                                   *)

NoImage == CHOOSE z \in EmptyImages : z.width = 0 /\ z.height = 0

NoFeatures ==
    [ height |-> 0, width |-> 0, num_contours |-> 0, edge_density |-> <<0, 1>>,
      color_std |-> 0, saturation_mean |-> 0, filled_ratio |-> <<0, 1>>,
      circles |-> <<>>, num_rectangles |-> 0, long_lines |-> 0,
      vertical_lines |-> 0, small_contours |-> 0 ]

NoEnvelope == [none |-> TRUE]

Init ==
    /\ pc = "idle"
    /\ image_array = NoImage
    /\ f = NoFeatures
    /\ e = "none"
    /\ result = "none"
    /\ ret = 0
    /\ envelope = NoEnvelope

----------------------------------------------------------------------------
(* Operations                                                              *)

\* lines 18, 30-98: a call whose feature computation completes
Extract(img) ==
    /\ pc = "idle"
    /\ img.width > 0 /\ img.height > 0
    /\ image_array' = img
    /\ f' = Features(img)
    /\ e' = "none"
    /\ result' = "none"
    /\ ret' = 0
    /\ pc' = "tree"
    /\ UNCHANGED envelope

\* lines 18, 30-31: cv2.cvtColor raises on an empty array; control goes to
\* the except clause with the locals unassigned
ExtractFault(img) ==
    /\ pc = "idle"
    /\ (img.width = 0 \/ img.height = 0)
    /\ image_array' = img
    /\ e' = "cv2.error"
    /\ result' = "none"
    /\ ret' = 0
    /\ pc' = "except"
    /\ UNCHANGED <<f, envelope>>

\* Except raising again instead of returning the safe default
ExceptReraise ==
    /\ pc = "except"
    /\ result' = "raised"
    /\ ret' = 166
    /\ pc' = "done"
    /\ UNCHANGED <<image_array, f, e, envelope>>

\* lines 166-167
Except ==
    /\ pc = "except"
    /\ result' = "Scatterplot"
    /\ ret' = 167
    /\ pc' = "done"
    /\ UNCHANGED <<image_array, f, e, envelope>>

\* lines 100-164
Classify ==
    /\ pc = "tree"
    /\ result' = DecisionTree(f).label
    /\ ret' = DecisionTree(f).line
    /\ pc' = "done"
    /\ UNCHANGED <<image_array, f, e, envelope>>

\* Respond with the failure envelope's method annotation
RespondFallbackMethod ==
    /\ pc = "done"
    /\ envelope' = [ success |-> TRUE, chart_type |-> result,
                     method |-> "fallback", confidence |-> "high" ]
    /\ pc' = "idle"
    /\ UNCHANGED <<image_array, f, e, result, ret>>

\* lines 178-185: the endpoint wraps the label
Respond ==
    /\ pc = "done"
    /\ envelope' = [ success |-> TRUE, chart_type |-> result,
                     method |-> "trained_feature_detection",
                     confidence |-> "high" ]
    /\ pc' = "idle"
    /\ UNCHANGED <<image_array, f, e, result, ret>>

\* lines 172-176, 187-193: reading or decoding the upload raises
DecodeFail(msg) ==
    /\ pc = "idle"
    /\ envelope' = [ success |-> FALSE, error |-> msg,
                     chart_type |-> "Scatterplot", method |-> "fallback" ]
    /\ UNCHANGED <<pc, image_array, f, e, result, ret>>

\* one call of detect_chart_type_accurate on any image
Next ==
    \/ pc = "idle" /\ \E p \in GridParams : Extract(GridImage(p))
    \/ pc = "idle" /\ \E img \in OtherImages : Extract(img)
    \/ pc = "idle" /\ \E img \in EmptyImages : ExtractFault(img)
    \/ Except
    \/ Classify

Spec == Init /\ [][Next]_vars

\* the endpoint answering a sequence of uploads
NextService ==
    \/ pc = "idle" /\ \E img \in ServiceImages : Extract(img)
    \/ pc = "idle" /\ \E img \in ServiceImages : ExtractFault(img)
    \/ Except
    \/ Classify
    \/ Respond
    \/ \E msg \in DecodeErrors : DecodeFail(msg)

SpecService == Init /\ [][NextService]_vars

----------------------------------------------------------------------------
(* The specification's rule table, restated from its section 4.2           *)

ChartTypes ==
    { "Pie Chart", "Scatterplot", "Boxplot", "Violin Plot", "Line Chart",
      "Stacked Area Chart", "Area Chart", "Bar Chart", "Grouped Bar Chart",
      "Stacked Bar Chart", "Histogram", "Histogram with Density",
      "Density Plot" }

\* the detected circles of a feature vector, none when HoughCircles gave None
Detected(v) == IF v.circles = <<>> THEN <<>> ELSE v.circles[1]

\* some detected circle has radius > 0.2 * min(width, height)
LargeCircle(v) ==
    \E i \in DOMAIN Detected(v) :
        5 * Detected(v)[i][3] > Min(v.width, v.height)

\* predicate of rule i of the ordered chain, i in 1..10
Rule(i, v) ==
    CASE i = 1 -> LargeCircle(v)
      [] i = 2 -> /\ v.small_contours > 30
                  /\ Gt(v.edge_density, 15, 100)
                  /\ v.long_lines < 5
      [] i = 3 -> /\ 3 <= v.num_rectangles /\ v.num_rectangles <= 10
                  /\ v.vertical_lines >= 3
      [] i = 4 -> /\ 2 < v.num_contours /\ v.num_contours < 15
                  /\ v.num_rectangles < 3
                  /\ Gt(v.edge_density, 5, 100) /\ Lt(v.edge_density, 15, 100)
                  /\ v.saturation_mean > 50
      [] i = 5 -> /\ v.long_lines >= 2
                  /\ v.num_contours > 5
                  /\ v.num_rectangles < 5
      [] i = 6 -> /\ Gt(v.filled_ratio, 30, 100)
                  /\ v.color_std > 30
                  /\ Lt(v.edge_density, 12, 100)
      [] i = 7 -> Gt(v.filled_ratio, 25, 100) /\ Lt(v.edge_density, 10, 100)
      [] i = 8 -> v.num_rectangles > 3
      [] i = 9 -> v.vertical_lines > 5 /\ Gt(v.edge_density, 12, 100)
      [] i = 10 -> Lt(v.edge_density, 8, 100) /\ v.num_contours < 5

\* label of rule i, sub-cases chosen in the rule's own if / else-if order
RuleLabel(i, v) ==
    CASE i = 1 -> "Pie Chart"
      [] i = 2 -> "Scatterplot"
      [] i = 3 -> "Boxplot"
      [] i = 4 -> "Violin Plot"
      [] i = 5 -> "Line Chart"
      [] i = 6 -> "Stacked Area Chart"
      [] i = 7 -> "Area Chart"
      [] i = 8 -> IF v.num_contours > 15 THEN "Grouped Bar Chart"
                  ELSE IF v.color_std > 40 THEN "Stacked Bar Chart"
                  ELSE "Bar Chart"
      [] i = 9 -> IF v.color_std > 40 THEN "Histogram with Density"
                  ELSE "Histogram"
      [] i = 10 -> "Density Plot"
      [] i = 11 -> IF v.long_lines > 0 THEN "Line Chart"
                   ELSE IF v.small_contours > 10 THEN "Scatterplot"
                   ELSE IF v.num_rectangles > 0 THEN "Bar Chart"
                   ELSE "Line Chart"

\* the first rule whose predicate holds, 11 (the fallback chain) if none
FirstRule(v) ==
    IF \E i \in 1..10 : Rule(i, v)
    THEN CHOOSE i \in 1..10 : Rule(i, v) /\ \A j \in 1..(i - 1) : ~Rule(j, v)
    ELSE 11

\* the rule a return statement of the source belongs to (0: the except clause)
RuleOfLine(line) ==
    CASE line = 107 -> 1  [] line = 111 -> 2  [] line = 115 -> 3
      [] line = 122 -> 4  [] line = 126 -> 5  [] line = 130 -> 6
      [] line = 134 -> 7  [] line \in {139, 141, 143} -> 8
      [] line \in {148, 150} -> 9  [] line = 154 -> 10
      [] line \in {158, 160, 162, 164} -> 11
      [] OTHER -> 0

\* the call returned from the decision tree, not from the except clause
Returned == pc = "done" /\ e = "none"

----------------------------------------------------------------------------
(* Claims                                                                  *)

\* C1: every call, on any feature vector and on a faulting extraction,
\* returns exactly one label and that label is one of the thirteen.
C1_Totality == pc = "done" => result \in ChartTypes

C1_Witness ==
    pc = "done" /\ e = "none" /\ result = "Histogram with Density"

\* C2: when extraction did not fault, the label is that of the first rule,
\* in the order 1..11, whose predicate holds, and the return statement
\* executed belongs to that rule.
C2_FirstMatchWins ==
    Returned =>
        /\ RuleOfLine(ret) = FirstRule(f)
        /\ result = RuleLabel(FirstRule(f), f)

C2_Witness ==
    Returned /\ FirstRule(f) = 6 /\ Rule(7, f) /\ result = "Stacked Area Chart"

\* C3: when feature computation raises (a zero-dimension image), the call
\* returns Scatterplot from the except clause; no rule's return is taken.
C3_FaultGivesScatterplot ==
    pc = "done" /\ (e # "none" \/ image_array.width = 0 \/ image_array.height = 0)
        => result = "Scatterplot" /\ ret = 167

C3_Witness ==
    pc = "done" /\ e = "cv2.error" /\ image_array.width = 300
        /\ image_array.height = 0 /\ result = "Scatterplot"

\* C4 as stated: every feature vector satisfying both rule 3 and rule 9
\* yields Boxplot.
C4_Original ==
    Returned /\ Rule(3, f) /\ Rule(9, f) => result = "Boxplot"

\* C4 amended: every feature vector satisfying both rule 3 and rule 9, and
\* neither rule 1 (Pie Chart) nor rule 2 (Scatterplot), yields Boxplot.
C4_BoxplotBeforeHistogram ==
    Returned /\ Rule(3, f) /\ Rule(9, f) /\ ~Rule(1, f) /\ ~Rule(2, f)
        => result = "Boxplot" /\ ret = 115

C4_Witness ==
    Returned /\ Rule(3, f) /\ Rule(9, f) /\ result = "Boxplot"

\* the feature vector of a single-colour image
Blank(v) ==
    /\ v.edge_density[1] = 0 /\ v.num_contours = 0 /\ v.small_contours = 0
    /\ v.num_rectangles = 0 /\ v.circles = <<>> /\ v.long_lines = 0
    /\ v.vertical_lines = 0 /\ v.color_std = 0

\* C5 as stated: on the feature vector of a blank image no rule 1..10
\* matches and the call returns Line Chart from the end of the fallback chain.
C5_Original ==
    Returned /\ Blank(f) => result = "Line Chart" /\ ret = 164

\* C5 amended: on the feature vector of a blank image rules 1 to 6 do not
\* match; the call returns Area Chart (rule 7) when filled_ratio > 0.25 and
\* otherwise Density Plot (rule 10); the fallback chain is not reached.
C5_BlankImage ==
    Returned /\ Blank(f) =>
        /\ \A i \in 1..6 : ~Rule(i, f)
        /\ IF Gt(f.filled_ratio, 25, 100)
           THEN result = "Area Chart" /\ ret = 134
           ELSE result = "Density Plot" /\ ret = 154

C5_Witness ==
    Returned /\ Blank(f) /\ f.filled_ratio[1] = 0 /\ result = "Density Plot"

\* C7: a detected circle with radius > 0.2 * min(width, height) gives Pie
\* Chart whatever the other features are; when circles were detected and
\* none is that large, the result is that of rules 2.. on the same features.
C7_PieRule ==
    Returned =>
        /\ LargeCircle(f) => result = "Pie Chart" /\ ret = 107
        /\ ~LargeCircle(f) =>
              /\ ret # 107
              /\ result = RuleLabel(FirstRule([f EXCEPT !.circles = <<>>]), f)

C7_Witness ==
    /\ Returned /\ Len(Detected(f)) = 2
    /\ 5 * Detected(f)[1][3] <= Min(f.width, f.height)
    /\ 5 * Detected(f)[2][3] > Min(f.width, f.height)
    /\ Rule(2, f) /\ result = "Pie Chart"

\* C8: every answer of /detect-chart is an envelope: after the core
\* returned, success with the core's label and the two static annotations;
\* when reading or decoding failed, failure with the error message,
\* Scatterplot and method fallback.  Nothing else changes the envelope.
C8_Envelope ==
    [][ /\ pc = "done" =>
              envelope' = [ success |-> TRUE, chart_type |-> result,
                            method |-> "trained_feature_detection",
                            confidence |-> "high" ]
        /\ pc = "idle" /\ envelope' # envelope =>
              \E msg \in DecodeErrors :
                  envelope' = [ success |-> FALSE, error |-> msg,
                                chart_type |-> "Scatterplot",
                                method |-> "fallback" ]
        /\ pc \in {"tree", "except"} => envelope' = envelope ]_vars

C8_Witness ==
    /\ pc = "idle" /\ e = "cv2.error"
    /\ envelope = [ success |-> TRUE, chart_type |-> "Scatterplot",
                    method |-> "trained_feature_detection",
                    confidence |-> "high" ]

\* C9: the fallback chain is reached only when no rule 1..10 matches, so
\* with num_rectangles <= 3 and edge_density >= 0.08 or at least 5
\* significant contours; it returns the label of its first true branch.
C9_FallbackChain ==
    Returned /\ ret \in {158, 160, 162, 164} =>
        /\ \A i \in 1..10 : ~Rule(i, f)
        /\ f.num_rectangles <= 3
        /\ (~Lt(f.edge_density, 8, 100) \/ f.num_contours >= 5)
        /\ result = RuleLabel(11, f)
        /\ result \in {"Line Chart", "Scatterplot", "Bar Chart"}

C9_Witness ==
    Returned /\ ret = 162 /\ result = "Bar Chart" /\ f.num_rectangles = 3

\* what the decision tree returns over the images whose extraction completes
Returns ==
    {DecisionTree(Features(GridImage(p))) : p \in GridParams}
    \cup {DecisionTree(Features(img)) : img \in OtherImages}

\* C10: whenever a call can start, each of the thirteen labels is returned
\* by a rule 1..10 or the fallback chain for some image (whose small blobs
\* and rectangles are among its significant contours), and so is each
\* fallback branch.
C10_NoDeadLabel ==
    pc = "idle" =>
        /\ \A label \in ChartTypes : \E r \in Returns : r.label = label
        /\ \A line \in {158, 160, 162, 164} : \E r \in Returns : r.line = line

C10_Witness ==
    /\ Returned /\ ret = 160 /\ result = "Scatterplot"
    /\ f.small_contours + f.num_rectangles <= f.num_contours

====
